---- MODULE Spec2Model ----
(***************************************************************************)
(* Room monitor: the polling loop of monitor.py (main), the sensor         *)
(* acquisition of current_data.py (get_current_data) and the settings      *)
(* writer of dashboard.py (api_post_settings / write_settings).            *)
(*                                                                         *)
(* Units.  Time is in minutes since an hour boundary.  Temperatures,       *)
(* humidities and thresholds are in hundredths (18.0 is 1800); raw sensor  *)
(* values are in tenths, the resolution of the DHT22.                      *)
(*                                                                         *)
(* Time.  The clock moves in the countdown between two cycles only: one    *)
(* acquisition sleeps at most max_retries * retry_delay = 10 seconds,      *)
(* which is below the resolution of the clock.                             *)
(*                                                                         *)
(* Interleaving.  main() and get_current_data() touch settings.json in     *)
(* MonLoad and GcdLoad only, so the writers of that file are scheduled     *)
(* right before these two steps (ReadPoint); every other step of the loop  *)
(* commutes with them.                                                     *)
(***************************************************************************)
EXTENDS Integers, Sequences, FiniteSets, TLC

\* ------------------------------------------------------------------ bounds
MaxClock == 250
MaxCycles == 2
MaxPosts == 1
MaxRetriesBound == 4
MaxAlertCycles == 4
MaxRestarts == 1
MaxDashPosts == 3

\* ------------------------------------------------------- program constants
Cooldown == 60
HourLen == 60
WaitTime == 5
DefaultMaxRetries == 5
TEMPERATURE_ADJUSTMENT == 9
HUMIDITY_ADJUSTMENT == 10
DefaultPort == 465
DefaultPin == 4

\* None of Python, for the integer-valued places that may hold it
None == -1
\* a settings value that float() / int() cannot convert (raises ValueError)
BadNum == 999999
\* a key that the settings file does not hold
Absent == 999998

Kinds == {"temp", "hum"}

\* timestamp.replace(minute=0, second=0, microsecond=0)
HourFloor(t) == (t \div HourLen) * HourLen

\* pins that getattr(board, "D<n>") resolves
BoardPins == {4, 17}

\* --------------------------------------------------------------- inputs
\* raw sensor values (tenths): 13.5 / 20.7 / 27.0 degrees after calibration
RawTemps == {150, 230, 300}
\* raw humidities (tenths): 30 / 50 / 80 %RH
RawHums == {300, 500, 800}
\* the pairs a measurement delivers: both in range, one metric out, both out
Readings == {<<230, 500>>, <<300, 500>>, <<230, 300>>, <<150, 800>>}
WaitDelays == {WaitTime, 60, 125}
StartClocks == {65}

\* defaults written by monitor.load_settings when the file is missing
MonitorDefaults ==
    [min_temp |-> 1800, max_temp |-> 2200, min_hum |-> 4000, max_hum |-> 7000,
     data_pin |-> DefaultPin, email |-> FALSE, smtp_port |-> DefaultPort]

\* defaults written by dashboard.load_settings: placeholder (non-empty) credentials
DashboardDefaults ==
    [min_temp |-> 1800, max_temp |-> 2200, min_hum |-> 4000, max_hum |-> 7000,
     data_pin |-> DefaultPin, email |-> TRUE, smtp_port |-> DefaultPort]

\* what the operator may have left in settings.json before the start
SettingsChoices ==
    { MonitorDefaults,
      [MonitorDefaults EXCEPT !.email = TRUE],
      [MonitorDefaults EXCEPT !.email = TRUE, !.smtp_port = BadNum],
      [MonitorDefaults EXCEPT !.max_temp = BadNum],
      [MonitorDefaults EXCEPT !.data_pin = Absent],
      [MonitorDefaults EXCEPT !.data_pin = 99] }

\* bodies of POST /api/settings (hundredths)
PostChoices ==
    { [min_temp |-> 1800, max_temp |-> 2800, min_hum |-> 4000, max_hum |-> 9000],
      [min_temp |-> 2200, max_temp |-> 1800, min_hum |-> 4000, max_hum |-> 7000],
      [min_temp |-> -5000, max_temp |-> 2200, min_hum |-> 4000, max_hum |-> 7000] }

\* one access to the sensor: both properties read, or the driver raising
SensorOutcomes ==
    {[kind |-> "value", t |-> r[1], h |-> r[2]] : r \in Readings}
    \cup {[kind |-> "value", t |-> 230, h |-> None],
          [kind |-> "value", t |-> None, h |-> None],
          [kind |-> "RuntimeError", t |-> None, h |-> None],
          [kind |-> "OSError", t |-> None, h |-> None]}

\* ---------------------------------------------------------------- state
VARIABLES
    clock,              \* wall clock (datetime.now())
    settingsFile,       \* settings.json: [state, data]
    csvFile,            \* data_log.csv: [exists, rows]
    pc,                 \* position of main()
    error,              \* exception that ended main(), or "none"
    hourly_temp, hourly_hum, last_hour,
    last_alert_time, last_outside_state,
    settings, min_t, max_t, min_h, max_h,
    timestamp, temp, hum, log_time,
    gcd_pc, max_retries, attempt, dhtDevice, gcd_result, gcd_value,
    dash_pc, dash_pending,
    \* observation of the run (no counterpart in the code)
    reads, validReads, nullReads, handles, releases,
    cycles, posts,
    hourly_ts, alertTimes, decision, dispatch, evalHist, shadow, lastRoll, restarts

envVars == <<clock, settingsFile, csvFile>>
bucketVars == <<hourly_temp, hourly_hum, hourly_ts, last_hour, log_time>>
alertVars == <<last_alert_time, last_outside_state>>
snapVars == <<settings, min_t, max_t, min_h, max_h, timestamp>>
readingVars == <<temp, hum>>
gcdVars == <<gcd_pc, max_retries, attempt, dhtDevice, gcd_result, gcd_value,
             reads, validReads, nullReads, handles, releases>>
dashVars == <<dash_pc, dash_pending, posts>>
obsVars == <<alertTimes, decision, dispatch, evalHist, shadow, lastRoll, restarts>>
vars == <<envVars, pc, error, bucketVars, alertVars, snapVars, readingVars,
          gcdVars, dashVars, obsVars, cycles>>

HeaderRow == [kind |-> "header", timestamp |-> 0, temperature |-> 0, humidity |-> 0]

NoEval == [n |-> 0, allHigh |-> TRUE, firstAt |-> None, prevAt |-> None]
NoShadow == [on |-> FALSE, ok |-> FALSE, since |-> None, outside |-> FALSE, last |-> None,
             alert |-> FALSE]
NoRoll == [at |-> None, crossed |-> FALSE, empty |-> FALSE, wrote |-> FALSE,
           label |-> None, srcHours |-> {}, bucketHour |-> None]

InitCommon ==
    /\ clock \in StartClocks
    /\ error = "none"
    /\ hourly_temp = <<>> /\ hourly_hum = <<>> /\ hourly_ts = <<>>
    /\ last_hour = None /\ log_time = None
    /\ last_alert_time = [k \in Kinds |-> None]
    /\ last_outside_state = [k \in Kinds |-> FALSE]
    /\ settings = MonitorDefaults
    /\ min_t = None /\ max_t = None /\ min_h = None /\ max_h = None
    /\ timestamp = None /\ temp = None /\ hum = None
    /\ attempt = 0 /\ dhtDevice = "none" /\ gcd_result = "none"
    /\ gcd_value = <<None, None>>
    /\ dash_pc = "idle" /\ dash_pending = MonitorDefaults
    /\ reads = 0 /\ validReads = 0 /\ nullReads = 0 /\ handles = 0 /\ releases = 0
    /\ cycles = 0 /\ posts = 0
    /\ alertTimes = [k \in Kinds |-> <<>>]
    /\ decision = [k \in Kinds |-> "NoAlert"]
    /\ dispatch = [k \in Kinds |-> "none"]
    /\ evalHist = [k \in Kinds |-> NoEval]
    /\ shadow = [k \in Kinds |-> NoShadow]
    /\ lastRoll = NoRoll
    /\ restarts = 0

Init ==
    /\ InitCommon
    /\ settingsFile \in {[state |-> "missing", data |-> MonitorDefaults]}
                         \cup {[state |-> "ok", data |-> s] : s \in SettingsChoices}
    /\ csvFile \in {[exists |-> FALSE, rows |-> <<>>],
                    [exists |-> TRUE, rows |-> <<HeaderRow>>]}
    /\ pc = "start"
    /\ gcd_pc = "idle"
    /\ max_retries = DefaultMaxRetries

\* ------------------------------------------------------------- helpers
\* dict.get(key, default)
GetOr(val, default) == IF val = Absent THEN default ELSE val

RECURSIVE SeqSum(_)
SeqSum(s) == IF s = <<>> THEN 0 ELSE Head(s) + SeqSum(Tail(s))

\* n / d rounded to the nearest integer, ties to even (d > 0)
RoundHalfEven(n, d) ==
    LET q == n \div d
        r == n % d
    IN  IF 2 * r < d THEN q
        ELSE IF 2 * r > d THEN q + 1
        ELSE IF q % 2 = 0 THEN q ELSE q + 1

\* f"{sum(xs) / len(xs):.1f}": the mean of hundredths, printed in tenths
Fmt1(xs) == RoundHalfEven(SeqSum(xs), Len(xs) * 10)

\* temperature *= TEMPERATURE_ADJUSTMENT (raw tenths to calibrated hundredths)
Calibrate(raw, adjustment) == raw * adjustment

\* ------------------------------------------- current_data.get_current_data
\* variant of the loop bound: one iteration too many
MoreAttempts_Inclusive(a, mr) == a <= mr

\* for attempt in range(max_retries)
MoreAttempts(a, mr) == a < mr

\* temperature is not None and humidity is not None
ValidRead(t, h) == t # None /\ h # None

\* variant of the release: dhtDevice.exit() after the return only, not in a finally
ExitReleases_ReturnOnly(how) == how = "ok"

\* finally: dhtDevice.exit() runs on every way out of the try, whatever ended it
ExitReleases(how) == TRUE

\* the way out of the try block: the handle is released, or left open
Exit(how) ==
    /\ dhtDevice' = IF ExitReleases(how) THEN "released" ELSE dhtDevice
    /\ releases' = IF ExitReleases(how) THEN releases + 1 ELSE releases

\* leaving get_current_data with an exception before the handle exists
GcdFail(exc) ==
    /\ gcd_pc' = "done"
    /\ gcd_result' = exc
    /\ UNCHANGED <<max_retries, attempt, dhtDevice, gcd_value, reads, validReads, nullReads, handles,
                   releases>>

\* load_settings(), data_pin lookup, board pin mapping, DHT22(pin)
GcdLoad ==
    /\ gcd_pc = "load"
    /\ IF settingsFile.state = "missing" THEN GcdFail("FileNotFoundError")
       ELSE IF settingsFile.state = "partial" THEN GcdFail("JSONDecodeError")
       ELSE IF settingsFile.data.data_pin = Absent THEN GcdFail("ValueError")
       ELSE IF settingsFile.data.data_pin \notin BoardPins THEN GcdFail("ValueError")
       ELSE /\ gcd_pc' = "read"
            /\ dhtDevice' = "open"
            /\ handles' = handles + 1
            /\ attempt' = 0
            /\ UNCHANGED <<max_retries, gcd_result, gcd_value, reads, validReads, nullReads,
                           releases>>
    /\ UNCHANGED <<envVars, pc, error, bucketVars, alertVars, snapVars, readingVars,
                   dashVars, obsVars, cycles>>

\* one iteration of the retry loop; the finally clause runs on every way out
GcdRead(outcomes) ==
    /\ gcd_pc = "read"
    /\ MoreAttempts(attempt, max_retries)
    /\ \E o \in outcomes :
        /\ reads' = reads + 1
        /\ nullReads' = IF o.kind = "value" /\ (o.t = None \/ o.h = None)
                        THEN nullReads + 1 ELSE nullReads
        /\ IF o.kind = "value" /\ ValidRead(o.t, o.h)
           THEN /\ gcd_value' = <<Calibrate(o.t, TEMPERATURE_ADJUSTMENT),
                                  Calibrate(o.h, HUMIDITY_ADJUSTMENT)>>
                /\ gcd_result' = "ok"
                /\ gcd_pc' = "done"
                /\ Exit("ok")
                /\ validReads' = validReads + 1
                /\ UNCHANGED <<attempt, clock>>
           ELSE IF o.kind = "OSError"
           THEN /\ gcd_result' = "OSError"
                /\ gcd_pc' = "done"
                /\ Exit("OSError")
                /\ UNCHANGED <<attempt, clock, gcd_value, validReads>>
           ELSE \* RuntimeError: received None, or raised by the driver; sleep, retry
                /\ attempt' = attempt + 1
                /\ UNCHANGED <<clock, gcd_pc, gcd_result, gcd_value, dhtDevice, validReads,
                               releases>>
    /\ UNCHANGED <<settingsFile, csvFile, max_retries, handles, pc, error, bucketVars,
                   alertVars, snapVars, readingVars, dashVars, obsVars, cycles>>

\* the loop ran out: raise RuntimeError, finally releases the handle
GcdExhausted ==
    /\ gcd_pc = "read"
    /\ ~MoreAttempts(attempt, max_retries)
    /\ gcd_pc' = "done"
    /\ gcd_result' = "RuntimeError"
    /\ Exit("RuntimeError")
    /\ UNCHANGED <<max_retries, attempt, gcd_value, reads, validReads, nullReads, handles>>
    /\ UNCHANGED <<envVars, pc, error, bucketVars, alertVars, snapVars, readingVars,
                   dashVars, obsVars, cycles>>

\* ------------------------------------------------------- monitor.main
Crash(exc) ==
    /\ pc' = "crashed"
    /\ error' = exc

\* variant of the initialisation: the file is opened for writing without the test
\* of its existence
EnsureInitialized_Truncate(file, ok) ==
    IF ok THEN [exists |-> TRUE, rows |-> <<HeaderRow>>] ELSE file

\* if not os.path.exists(DATA_FILE): open(DATA_FILE, "w"), write the header
EnsureInitialized(file, ok) ==
    IF file.exists THEN file
    ELSE IF ok THEN [exists |-> TRUE, rows |-> <<HeaderRow>>] ELSE file

\* creation of the CSV file with its header, and the in-memory state
MonStart ==
    /\ pc = "start"
    /\ \E ok \in BOOLEAN : csvFile' = EnsureInitialized(csvFile, ok)
    /\ last_hour' = HourFloor(clock)
    /\ pc' = "load"
    /\ UNCHANGED <<clock, settingsFile, error, hourly_temp, hourly_hum, hourly_ts, log_time,
                   alertVars, snapVars, readingVars, gcdVars, dashVars, obsVars,
                   cycles>>

\* float(settings.get(key, default)) of the four thresholds
Convertible(s) ==
    /\ s.min_temp # BadNum /\ s.max_temp # BadNum
    /\ s.min_hum # BadNum /\ s.max_hum # BadNum

\* variant of load_settings: the defaults are also written over a file that lacks a key
LoadSettingsFile_Repair(file) ==
    IF file.state = "missing" \/ file.data.data_pin = Absent
    THEN [state |-> "ok", data |-> MonitorDefaults]
    ELSE file

\* what monitor.load_settings leaves on disk: the defaults when the file is missing
\* (open(SETTINGS_FILE, "w"), json.dump(defaults)), the file as it is otherwise
LoadSettingsFile(file) ==
    IF file.state = "missing" THEN [state |-> "ok", data |-> MonitorDefaults] ELSE file

\* top of the loop: load_settings(), the thresholds, timestamp, and the call
MonLoad ==
    /\ pc = "load"
    /\ LET missing == settingsFile.state = "missing"
           s == IF missing THEN MonitorDefaults ELSE settingsFile.data
       IN  IF settingsFile.state = "partial"
           THEN /\ Crash("JSONDecodeError")
                /\ UNCHANGED <<settingsFile, snapVars, gcd_pc, max_retries>>
           ELSE /\ settingsFile' = LoadSettingsFile(settingsFile)
                /\ settings' = s
                /\ IF Convertible(s)
                   THEN /\ min_t' = GetOr(s.min_temp, 1800)
                        /\ max_t' = GetOr(s.max_temp, 2600)
                        /\ min_h' = GetOr(s.min_hum, 5000)
                        /\ max_h' = GetOr(s.max_hum, 7000)
                        /\ timestamp' = clock
                        /\ pc' = "acquire"
                        /\ gcd_pc' = "load"
                        /\ max_retries' = DefaultMaxRetries
                        /\ UNCHANGED error
                   ELSE /\ Crash("ValueError")
                        /\ UNCHANGED <<min_t, max_t, min_h, max_h, timestamp, gcd_pc,
                                       max_retries>>
    /\ decision' = [k \in Kinds |-> "NoAlert"]
    /\ dispatch' = [k \in Kinds |-> "none"]
    /\ shadow' = [k \in Kinds |-> [shadow[k] EXCEPT !.alert = FALSE]]
    /\ UNCHANGED <<clock, csvFile, bucketVars, alertVars, readingVars, attempt, dhtDevice,
                   gcd_result, gcd_value, reads, validReads, nullReads, handles, releases,
                   dashVars,
                   alertTimes, evalHist, lastRoll, restarts, cycles>>

\* return of get_current_data(): the reading is kept, or the exception is caught;
\* the frame of the call and its locals are gone
MonAfterAcquire ==
    /\ pc = "acquire"
    /\ gcd_pc = "done"
    /\ gcd_pc' = "idle"
    /\ attempt' = 0 /\ dhtDevice' = "none" /\ gcd_result' = "none"
    /\ gcd_value' = <<None, None>>
    /\ reads' = 0 /\ validReads' = 0 /\ nullReads' = 0 /\ handles' = 0 /\ releases' = 0
    /\ IF gcd_result = "ok"
       THEN /\ temp' = gcd_value[1]
            /\ hum' = gcd_value[2]
            /\ hourly_temp' = Append(hourly_temp, gcd_value[1])
            /\ hourly_hum' = Append(hourly_hum, gcd_value[2])
            /\ hourly_ts' = Append(hourly_ts, timestamp)
            /\ pc' = "evalTemp"
       ELSE /\ temp' = None
            /\ hum' = None
            /\ UNCHANGED <<hourly_temp, hourly_hum, hourly_ts>>
            /\ pc' = "rollover"
    /\ UNCHANGED <<envVars, error, last_hour, log_time, alertVars, snapVars, max_retries,
                   dashVars, obsVars, cycles>>

\* outside = value < min_val or value > max_val
Outside(value, min_val, max_val) == value < min_val \/ value > max_val

\* variants of the cooldown test: a first alert that waits for a previous one, a
\* strict comparison, and an alert that is never repeated
CooldownElapsed_NoFirst(now, last_alert) == last_alert # None /\ now - last_alert >= Cooldown

CooldownElapsed_Strict(now, last_alert) == last_alert = None \/ now - last_alert > Cooldown

CooldownElapsed_Once(now, last_alert) == last_alert = None

\* last_alert is None or now - last_alert >= timedelta(hours=1)
CooldownElapsed(now, last_alert) == last_alert = None \/ now - last_alert >= Cooldown

\* variants of should_alert: one that alerts on the first detection, one that keeps
\* the outside flag when the value is back in range, one that forgets the time of
\* the last alert when the value is back in range
should_alert_Eager(kind, value, min_val, max_val, now, lat, los) ==
    IF Outside(value, min_val, max_val)
    THEN IF CooldownElapsed(now, lat[kind])
         THEN [alert |-> TRUE, lat |-> [lat EXCEPT ![kind] = now],
               los |-> [los EXCEPT ![kind] = TRUE]]
         ELSE [alert |-> FALSE, lat |-> lat, los |-> [los EXCEPT ![kind] = TRUE]]
    ELSE [alert |-> FALSE, lat |-> lat, los |-> [los EXCEPT ![kind] = FALSE]]

should_alert_Sticky(kind, value, min_val, max_val, now, lat, los) ==
    IF Outside(value, min_val, max_val)
    THEN IF ~los[kind]
         THEN [alert |-> FALSE, lat |-> lat, los |-> [los EXCEPT ![kind] = TRUE]]
         ELSE IF CooldownElapsed(now, lat[kind])
              THEN [alert |-> TRUE, lat |-> [lat EXCEPT ![kind] = now], los |-> los]
              ELSE [alert |-> FALSE, lat |-> lat, los |-> los]
    ELSE [alert |-> FALSE, lat |-> lat, los |-> los]

should_alert_Forget(kind, value, min_val, max_val, now, lat, los) ==
    IF Outside(value, min_val, max_val)
    THEN IF ~los[kind]
         THEN [alert |-> FALSE, lat |-> lat, los |-> [los EXCEPT ![kind] = TRUE]]
         ELSE IF CooldownElapsed(now, lat[kind])
              THEN [alert |-> TRUE, lat |-> [lat EXCEPT ![kind] = now], los |-> los]
              ELSE [alert |-> FALSE, lat |-> lat, los |-> los]
    ELSE [alert |-> FALSE, lat |-> [lat EXCEPT ![kind] = None],
          los |-> [los EXCEPT ![kind] = FALSE]]

\* variant of should_alert: the time of the alert is left to the caller to record
should_alert_NoStamp(kind, value, min_val, max_val, now, lat, los) ==
    IF Outside(value, min_val, max_val)
    THEN IF ~los[kind]
         THEN [alert |-> FALSE, lat |-> lat, los |-> [los EXCEPT ![kind] = TRUE]]
         ELSE IF CooldownElapsed(now, lat[kind])
              THEN [alert |-> TRUE, lat |-> lat, los |-> los]
              ELSE [alert |-> FALSE, lat |-> lat, los |-> los]
    ELSE [alert |-> FALSE, lat |-> lat, los |-> [los EXCEPT ![kind] = FALSE]]

\* the closure should_alert: its verdict and what it leaves in the two dictionaries
should_alert(kind, value, min_val, max_val, now, lat, los) ==
    LET outside == Outside(value, min_val, max_val)
        last_alert == lat[kind]
        previously_outside == los[kind]
    IN  IF outside
        THEN IF ~previously_outside
             THEN [alert |-> FALSE, lat |-> lat, los |-> [los EXCEPT ![kind] = TRUE]]
             ELSE IF previously_outside /\ CooldownElapsed(now, last_alert)
                  THEN [alert |-> TRUE, lat |-> [lat EXCEPT ![kind] = now], los |-> los]
                  ELSE [alert |-> FALSE, lat |-> lat, los |-> los]
        ELSE [alert |-> FALSE, lat |-> lat, los |-> [los EXCEPT ![kind] = FALSE]]

\* variant of the caller: the two comparisons exchanged
Direction_Swapped(alert, value, min_val, max_val) ==
    IF ~alert THEN "NoAlert"
    ELSE IF value > max_val THEN "LowAlert"
    ELSE IF value < min_val THEN "HighAlert"
    ELSE "NoDispatch"

\* which of the two send_email calls the caller of should_alert makes
Direction(alert, value, min_val, max_val) ==
    IF ~alert THEN "NoAlert"
    ELSE IF value < min_val THEN "LowAlert"
    ELSE IF value > max_val THEN "HighAlert"
    ELSE "NoDispatch"

\* send_email: "raise" (int(smtp_port) fails), "skipped" (no credentials, returns
\* False), "sent" (returns True), "failed" (the transport raised, returns False), or
\* "blocked": SMTP_SSL(host, port, context=context) sets no timeout, so a transport
\* that never answers keeps the call waiting
SendOutcomes(s) ==
    IF GetOr(s.smtp_port, DefaultPort) = BadNum THEN {"raise"}
    ELSE IF ~s.email THEN {"skipped"}
    ELSE {"sent", "failed", "blocked"}

Min(a, b) == IF a < b THEN a ELSE b

\* the run of should_alert restarted from the initial state at every in-range reading
ShadowStep(kind, value, min_val, max_val, now) ==
    IF ~Outside(value, min_val, max_val)
    THEN [on |-> TRUE,
          ok |-> last_alert_time[kind] = None \/ now - last_alert_time[kind] >= Cooldown,
          since |-> now, outside |-> FALSE, last |-> None, alert |-> FALSE]
    ELSE IF ~shadow[kind].on THEN shadow[kind]
    ELSE LET r == should_alert(kind, value, min_val, max_val, now,
                               [k \in Kinds |-> shadow[k].last],
                               [k \in Kinds |-> shadow[k].outside])
         IN  [shadow[kind] EXCEPT !.outside = r.los[kind], !.last = r.lat[kind],
                                  !.alert = r.alert]

\* the evaluation of one metric and the dispatch of its alert
MonEval(kind, value, min_val, max_val, here, next) ==
    /\ pc = here
    /\ LET now == clock
           r == should_alert(kind, value, min_val, max_val, now,
                             last_alert_time, last_outside_state)
           dir == Direction(r.alert, value, min_val, max_val)
       IN  /\ last_alert_time' = r.lat
           /\ last_outside_state' = r.los
           /\ decision' = [decision EXCEPT ![kind] = dir]
           /\ alertTimes' = IF r.alert
                            THEN [alertTimes EXCEPT ![kind] = Append(@, now)]
                            ELSE alertTimes
           /\ evalHist' = [evalHist EXCEPT ![kind] =
                             [n |-> Min(@.n + 1, 3),
                              allHigh |-> @.allHigh /\ value > max_val,
                              firstAt |-> IF @.n = 0 THEN now ELSE @.firstAt,
                              prevAt |-> now]]
           /\ shadow' = [shadow EXCEPT ![kind] =
                             ShadowStep(kind, value, min_val, max_val, now)]
           /\ IF dir \in {"LowAlert", "HighAlert"}
              THEN \E out \in SendOutcomes(settings) :
                      /\ dispatch' = [dispatch EXCEPT ![kind] = out]
                      /\ IF out = "raise"
                         THEN Crash("ValueError")
                         ELSE IF out = "blocked"
                         THEN pc' = "blocked" /\ UNCHANGED error
                         ELSE pc' = next /\ UNCHANGED error
              ELSE /\ pc' = next
                   /\ UNCHANGED <<dispatch, error>>
    /\ UNCHANGED <<envVars, bucketVars, snapVars, readingVars, gcdVars, dashVars,
                   lastRoll, restarts, cycles>>

MonEvalTemp == MonEval("temp", temp, min_t, max_t, "evalTemp", "evalHum")

MonEvalHum == MonEval("hum", hum, min_h, max_h, "evalHum", "rollover")

\* current_hour > last_hour
RolloverDue(current_hour, lh) == current_hour > lh

\* log_time = current_hour - timedelta(hours=1)
LogTime(current_hour) == current_hour - HourLen

\* the guard of the averaging branch: if hourly_temp and hourly_hum
BucketFilled(ts, hs) == ts # <<>> /\ hs # <<>>

SeqRange(s) == {s[i] : i \in 1..Len(s)}

\* append_csv(row): open(DATA_FILE, "a") creates the file when it is absent
AppendCsv(row, ok) ==
    csvFile' = IF ok THEN [exists |-> TRUE, rows |-> Append(csvFile.rows, row)]
               ELSE csvFile

\* the hourly rollover at the end of the cycle
MonRollover(oks) ==
    /\ pc = "rollover"
    /\ LET current_hour == HourFloor(timestamp)
           due == RolloverDue(current_hour, last_hour)
           filled == BucketFilled(hourly_temp, hourly_hum)
           obs == [at |-> timestamp, crossed |-> current_hour > last_hour,
                   empty |-> hourly_temp = <<>>, wrote |-> FALSE, label |-> None,
                   srcHours |-> {HourFloor(t) : t \in SeqRange(hourly_ts)},
                   bucketHour |-> last_hour]
       IN  IF ~due
           THEN /\ pc' = "wait"
                /\ lastRoll' = obs
                /\ UNCHANGED <<csvFile, bucketVars, error>>
           ELSE IF filled
           THEN \E ok \in oks :
                   /\ log_time' = LogTime(current_hour)
                   /\ AppendCsv([kind |-> "data", timestamp |-> LogTime(current_hour),
                                 temperature |-> Fmt1(hourly_temp),
                                 humidity |-> Fmt1(hourly_hum)], ok)
                   /\ hourly_temp' = <<>> /\ hourly_hum' = <<>> /\ hourly_ts' = <<>>
                   /\ last_hour' = current_hour
                   /\ lastRoll' = [obs EXCEPT !.wrote = ok, !.label = LogTime(current_hour)]
                   /\ pc' = "wait"
                   /\ UNCHANGED error
           ELSE IF log_time = None
           THEN \* the message of the else branch reads log_time, which is unbound
                /\ Crash("UnboundLocalError")
                /\ lastRoll' = obs
                /\ UNCHANGED <<csvFile, bucketVars>>
           ELSE /\ hourly_temp' = <<>> /\ hourly_hum' = <<>> /\ hourly_ts' = <<>>
                /\ last_hour' = current_hour
                /\ lastRoll' = obs
                /\ pc' = "wait"
                /\ UNCHANGED <<csvFile, log_time, error>>
    /\ UNCHANGED <<clock, settingsFile, alertVars, snapVars, readingVars, gcdVars,
                   dashVars, alertTimes, decision, dispatch, evalHist, shadow,
                   restarts, cycles>>

\* the countdown to the next reading: at least wait_time, more when the process is held up
MonWait(delays, cap) ==
    /\ pc = "wait"
    /\ cycles < cap
    /\ \E d \in delays :
        /\ clock + d <= MaxClock
        /\ clock' = clock + d
    /\ cycles' = cycles + 1
    /\ pc' = "load"
    /\ UNCHANGED <<settingsFile, csvFile, error, bucketVars, alertVars, snapVars,
                   readingVars, gcdVars, dashVars, obsVars>>

\* the process ends (an uncaught exception, or a stop during the countdown) and is
\* started again: main() begins anew, the files are what the last run left
MonRestart(cap) ==
    /\ pc \in {"crashed", "wait"}
    /\ restarts < cap
    /\ restarts' = restarts + 1
    /\ pc' = "start"
    /\ error' = "none"
    /\ hourly_temp' = <<>> /\ hourly_hum' = <<>> /\ hourly_ts' = <<>>
    /\ last_hour' = None /\ log_time' = None
    /\ last_alert_time' = [k \in Kinds |-> None]
    /\ last_outside_state' = [k \in Kinds |-> FALSE]
    /\ settings' = MonitorDefaults
    /\ min_t' = None /\ max_t' = None /\ min_h' = None /\ max_h' = None
    /\ timestamp' = None /\ temp' = None /\ hum' = None
    /\ alertTimes' = [k \in Kinds |-> <<>>]
    /\ decision' = [k \in Kinds |-> "NoAlert"]
    /\ dispatch' = [k \in Kinds |-> "none"]
    /\ evalHist' = [k \in Kinds |-> NoEval]
    /\ shadow' = [k \in Kinds |-> NoShadow]
    /\ lastRoll' = NoRoll
    /\ UNCHANGED <<envVars, gcdVars, dashVars, cycles>>

\* ----------------------------------------------------------- dashboard
\* variant of the validation: the two ordering checks are missing
ValidPost_NoOrder(d) ==
    /\ -4000 <= d.min_temp /\ d.min_temp <= 8000
    /\ -4000 <= d.max_temp /\ d.max_temp <= 8000
    /\ 0 <= d.min_hum /\ d.min_hum <= 10000
    /\ 0 <= d.max_hum /\ d.max_hum <= 10000

\* the range and ordering checks of api_post_settings
ValidPost(d) ==
    /\ -4000 <= d.min_temp /\ d.min_temp <= 8000
    /\ -4000 <= d.max_temp /\ d.max_temp <= 8000
    /\ 0 <= d.min_hum /\ d.min_hum <= 10000
    /\ 0 <= d.max_hum /\ d.max_hum <= 10000
    /\ ~(d.min_temp >= d.max_temp)
    /\ ~(d.min_hum >= d.max_hum)

\* the four keys write_settings copies into the current content
Updated(current, d) ==
    [current EXCEPT !.min_temp = d.min_temp, !.max_temp = d.max_temp,
                    !.min_hum = d.min_hum, !.max_hum = d.max_hum]

\* main() or get_current_data() is about to read settings.json
ReadPoint == pc = "load" \/ (pc = "acquire" /\ gcd_pc = "load")

\* POST /api/settings up to open(SETTINGS_FILE, "w"), which truncates the file
DashPost(cap, choices) ==
    /\ ReadPoint
    /\ dash_pc = "idle"
    /\ posts < cap
    /\ posts' = posts + 1
    /\ \E d \in choices :
        IF ~ValidPost(d) \/ settingsFile.state = "partial"
        THEN UNCHANGED <<settingsFile, dash_pc, dash_pending>>
        ELSE LET current == IF settingsFile.state = "missing" THEN DashboardDefaults
                            ELSE settingsFile.data
             IN  /\ dash_pending' = Updated(current, d)
                 /\ settingsFile' = [state |-> "partial", data |-> MonitorDefaults]
                 /\ dash_pc' = "writing"
    /\ UNCHANGED <<clock, csvFile, pc, error, bucketVars, alertVars, snapVars, readingVars,
                   gcdVars, obsVars, cycles>>

DashPostBegin == DashPost(MaxPosts, PostChoices)

\* json.dump(current, f) and the close of the file
DashPostEnd ==
    /\ ReadPoint
    /\ dash_pc = "writing"
    /\ settingsFile' = [state |-> "ok", data |-> dash_pending]
    /\ dash_pc' = "idle"
    /\ UNCHANGED <<clock, csvFile, pc, error, bucketVars, alertVars, snapVars, readingVars,
                   gcdVars, dash_pending, posts, obsVars, cycles>>

\* ------------------------------------------------------- specifications
GcdReadAny == GcdRead(SensorOutcomes)

MonWaitAny == MonWait(WaitDelays, MaxCycles)

MonRolloverAny == MonRollover(BOOLEAN)

Next ==
    \/ MonStart
    \/ MonLoad
    \/ GcdLoad
    \/ GcdReadAny
    \/ GcdExhausted
    \/ MonAfterAcquire
    \/ MonEvalTemp
    \/ MonEvalHum
    \/ MonRolloverAny
    \/ MonWaitAny
    \/ DashPostBegin
    \/ DashPostEnd

Spec == Init /\ [][Next]_vars

\* ---- the threshold evaluator over longer runs: a reading in range, a reading
\* ---- with one or both metrics out of range, or a failed acquisition, every 5 or 60
\* ---- minutes, with the dashboard changing the thresholds
AlertReadings == {<<230, 500>>, <<300, 500>>, <<300, 300>>}

AlertOutcomes ==
    {[kind |-> "value", t |-> r[1], h |-> r[2]] : r \in AlertReadings}
    \cup {[kind |-> "RuntimeError", t |-> None, h |-> None]}

AlertDelays == {WaitTime, Cooldown}

InitAlert ==
    /\ InitCommon
    /\ settingsFile = [state |-> "ok", data |-> MonitorDefaults]
    /\ csvFile = [exists |-> TRUE, rows |-> <<HeaderRow>>]
    /\ pc = "start"
    /\ gcd_pc = "idle"
    /\ max_retries = DefaultMaxRetries

GcdReadAlert == GcdRead(AlertOutcomes)

MonWaitAlert == MonWait(AlertDelays, MaxAlertCycles)

MonRolloverOk == MonRollover({TRUE})

NextAlert ==
    \/ MonStart
    \/ MonLoad
    \/ GcdLoad
    \/ GcdReadAlert
    \/ GcdExhausted
    \/ MonAfterAcquire
    \/ MonEvalTemp
    \/ MonEvalHum
    \/ MonRolloverOk
    \/ MonWaitAlert
    \/ DashPostBegin
    \/ DashPostEnd

SpecAlert == InitAlert /\ [][NextAlert]_vars


\* ---- one call of get_current_data(max_retries) by a caller that passes the
\* ---- number of retries, against every settings file and every sensor
InitAcquire ==
    /\ InitCommon
    /\ settingsFile \in {[state |-> "missing", data |-> MonitorDefaults]}
                         \cup {[state |-> "ok", data |-> s] : s \in SettingsChoices}
    /\ csvFile = [exists |-> TRUE, rows |-> <<HeaderRow>>]
    /\ pc = "caller"
    /\ gcd_pc = "load"
    /\ max_retries \in 0..MaxRetriesBound

NextAcquire ==
    \/ GcdLoad
    \/ GcdReadAny
    \/ GcdExhausted

SpecAcquire == InitAcquire /\ [][NextAcquire]_vars

\* ---- a breach that persists: every cycle delivers a temperature above max_temp,
\* ---- and the loop keeps running (weak fairness of its steps)
LiveOutcomes == {[kind |-> "value", t |-> 300, h |-> 500]}

LiveCycles == MaxClock \div WaitTime

GcdReadLive == GcdRead(LiveOutcomes)

MonWaitLive == MonWait(AlertDelays, LiveCycles)

NextLive ==
    \/ MonStart
    \/ MonLoad
    \/ GcdLoad
    \/ GcdReadLive
    \/ MonAfterAcquire
    \/ MonEvalTemp
    \/ MonEvalHum
    \/ MonRolloverOk
    \/ MonWaitLive

SpecLive == InitAlert /\ [][NextLive]_vars /\ WF_vars(NextLive)

\* ---- the log file over runs of the process that end and start again, with
\* ---- acquisitions that succeed or fail and appends that succeed or fail
LogOutcomes == {[kind |-> "value", t |-> 230, h |-> 500],
                [kind |-> "OSError", t |-> None, h |-> None]}

InitLog ==
    /\ InitCommon
    /\ settingsFile = [state |-> "ok", data |-> MonitorDefaults]
    /\ csvFile \in {[exists |-> FALSE, rows |-> <<>>],
                    [exists |-> TRUE, rows |-> <<HeaderRow>>]}
    /\ pc = "start"
    /\ gcd_pc = "idle"
    /\ max_retries = DefaultMaxRetries

GcdReadLog == GcdRead(LogOutcomes)

MonRestartAny == MonRestart(MaxRestarts)

NextLog ==
    \/ MonStart
    \/ MonLoad
    \/ GcdLoad
    \/ GcdReadLog
    \/ MonAfterAcquire
    \/ MonEvalTemp
    \/ MonEvalHum
    \/ MonRolloverAny
    \/ MonWaitAny
    \/ MonRestartAny

SpecLog == InitLog /\ [][NextLog]_vars
\* ---- the loop started without a settings file, or with one that holds credentials
InitSettings ==
    /\ InitCommon
    /\ settingsFile \in {[state |-> "missing", data |-> MonitorDefaults],
                         [state |-> "ok", data |-> [MonitorDefaults EXCEPT !.email = TRUE]],
                         [state |-> "ok", data |-> [MonitorDefaults EXCEPT !.data_pin = Absent]]}
    /\ csvFile = [exists |-> TRUE, rows |-> <<HeaderRow>>]
    /\ pc = "start"
    /\ gcd_pc = "idle"
    /\ max_retries = DefaultMaxRetries

SpecSettings == InitSettings /\ [][Next]_vars
\* ---- the dashboard alone: a sequence of POST /api/settings, accepted or rejected,
\* ---- on a settings file that is missing or holds valid thresholds
WidePostChoices ==
    PostChoices \cup
    { [min_temp |-> -4000, max_temp |-> 8000, min_hum |-> 0, max_hum |-> 10000],
      [min_temp |-> 2000, max_temp |-> 2500, min_hum |-> 3000, max_hum |-> 6000],
      [min_temp |-> 1500, max_temp |-> 3000, min_hum |-> 2000, max_hum |-> 8000],
      [min_temp |-> 7900, max_temp |-> 8000, min_hum |-> 9900, max_hum |-> 10000],
      [min_temp |-> -4000, max_temp |-> -3900, min_hum |-> 0, max_hum |-> 100],
      [min_temp |-> 2200, max_temp |-> 2200, min_hum |-> 4000, max_hum |-> 7000],
      [min_temp |-> 1800, max_temp |-> 2200, min_hum |-> 7000, max_hum |-> 4000],
      [min_temp |-> 1800, max_temp |-> 8100, min_hum |-> 4000, max_hum |-> 7000],
      [min_temp |-> 1800, max_temp |-> 2200, min_hum |-> -100, max_hum |-> 7000],
      [min_temp |-> 1800, max_temp |-> 2200, min_hum |-> 4000, max_hum |-> 10100] }

InitDash ==
    /\ InitCommon
    /\ settingsFile \in {[state |-> "missing", data |-> MonitorDefaults],
                         [state |-> "ok", data |-> MonitorDefaults],
                         [state |-> "ok", data |-> [MonitorDefaults EXCEPT !.email = TRUE]],
                         [state |-> "ok", data |-> [MonitorDefaults EXCEPT !.data_pin = 17]],
                         [state |-> "ok", data |-> [MonitorDefaults EXCEPT !.data_pin = Absent]]}
    /\ csvFile = [exists |-> TRUE, rows |-> <<HeaderRow>>]
    /\ pc = "load"
    /\ gcd_pc = "idle"
    /\ max_retries = DefaultMaxRetries

DashPostWide == DashPost(MaxDashPosts, WidePostChoices)

NextDash ==
    \/ DashPostWide
    \/ DashPostEnd

SpecDash == InitDash /\ [][NextDash]_vars
\* ---- the dispatch of alerts over longer runs: credentials absent or present, a
\* ---- port that int() cannot convert, a transport that accepts, fails or never answers
InitDispatch ==
    /\ InitCommon
    /\ settingsFile \in {[state |-> "ok", data |-> MonitorDefaults],
                         [state |-> "ok", data |-> [MonitorDefaults EXCEPT !.email = TRUE]],
                         [state |-> "ok", data |-> [MonitorDefaults EXCEPT !.email = TRUE,
                                                                           !.smtp_port = BadNum]]}
    /\ csvFile = [exists |-> TRUE, rows |-> <<HeaderRow>>]
    /\ pc = "start"
    /\ gcd_pc = "idle"
    /\ max_retries = DefaultMaxRetries

NextDispatch ==
    \/ MonStart
    \/ MonLoad
    \/ GcdLoad
    \/ GcdReadAlert
    \/ GcdExhausted
    \/ MonAfterAcquire
    \/ MonEvalTemp
    \/ MonEvalHum
    \/ MonRolloverOk
    \/ MonWaitAlert

SpecDispatch == InitDispatch /\ [][NextDispatch]_vars

\* =================================================================== claims
PcOf(k) == IF k = "temp" THEN "evalTemp" ELSE "evalHum"
Val(k) == IF k = "temp" THEN temp ELSE hum
Lo(k) == IF k = "temp" THEN min_t ELSE min_h
Hi(k) == IF k = "temp" THEN max_t ELSE max_h

\* the step of main() that evaluates metric k
EvalStep(k) == pc = PcOf(k) /\ pc' # PcOf(k)

\* metric k has been evaluated in the current cycle
Evaluated(k) ==
    /\ Val(k) # None
    /\ pc \in (IF k = "temp" THEN {"evalHum", "rollover", "wait"} ELSE {"rollover", "wait"})

Alerted(k) == decision[k] # "NoAlert"

\* C1 (as stated): from the initial state, with every reading above max: the first
\* reading gives no alert and moves the state to OutsideRange; the second reading,
\* less than one cooldown later, gives no alert; an alert fires only once one
\* cooldown has elapsed since the first breach.
C1_Orig ==
    [][\A k \in Kinds :
        (EvalStep(k) /\ evalHist[k].allHigh /\ Val(k) > Hi(k)) =>
            /\ (evalHist[k].n = 0 => decision'[k] = "NoAlert" /\ last_outside_state'[k])
            /\ (evalHist[k].n = 1 /\ clock - evalHist[k].prevAt < Cooldown
                    => decision'[k] = "NoAlert")
            /\ (decision'[k] # "NoAlert" => clock - evalHist[k].firstAt >= Cooldown)]_vars

\* C1 (amended): from the initial state, with every reading above max: the first
\* reading gives no alert and moves the state to OutsideRange; the second reading
\* fires the alert whatever the time since the first, because no alert time is set;
\* a later reading fires if and only if one cooldown has elapsed since the last alert.
C1_SecondBreachAlerts ==
    [][\A k \in Kinds :
        (EvalStep(k) /\ evalHist[k].allHigh /\ Val(k) > Hi(k)) =>
            /\ (evalHist[k].n = 0 =>
                    /\ decision'[k] = "NoAlert"
                    /\ last_outside_state'[k]
                    /\ last_alert_time'[k] = None)
            /\ (evalHist[k].n = 1 =>
                    /\ decision'[k] = "HighAlert"
                    /\ last_alert_time'[k] = clock)
            /\ (evalHist[k].n >= 2 =>
                    (decision'[k] = "HighAlert" <=> clock - last_alert_time[k] >= Cooldown))]_vars

\* the third reading above max, one cooldown after the alert of the second, alerts again
C1_Witness ==
    /\ pc = "evalHum"
    /\ evalHist["temp"].n = 3 /\ evalHist["temp"].allHigh
    /\ decision["temp"] = "HighAlert"
    /\ Len(alertTimes["temp"]) = 2
    /\ alertTimes["temp"][1] - evalHist["temp"].firstAt < Cooldown

\* C2: a value outside [min, max] while the prior state is WithinRange never alerts:
\* no alert is decided or dispatched, the state becomes OutsideRange and
\* lastAlertTime is left unchanged.
C2_FirstBreachArmsOnly ==
    [][\A k \in Kinds :
        (EvalStep(k) /\ Outside(Val(k), Lo(k), Hi(k)) /\ ~last_outside_state[k]) =>
            /\ decision'[k] = "NoAlert"
            /\ dispatch'[k] = "none"
            /\ last_outside_state'[k]
            /\ last_alert_time'[k] = last_alert_time[k]
            /\ alertTimes'[k] = alertTimes[k]]_vars

\* a re-breach after an alert and an in-range reading: armed, no alert, time kept
C2_Witness ==
    /\ pc = "evalHum"
    /\ Outside(temp, min_t, max_t)
    /\ shadow["temp"].on /\ shadow["temp"].outside /\ shadow["temp"].last = None
    /\ last_outside_state["temp"]
    /\ last_alert_time["temp"] # None
    /\ decision["temp"] = "NoAlert"

\* C3: a value outside [min, max] while the prior state is OutsideRange alerts if and
\* only if lastAlertTime is unset or now - lastAlertTime >= 1 hour; when it fires,
\* lastAlertTime becomes now and the state stays OutsideRange; when it does not,
\* lastAlertTime and the state are unchanged.
C3_CooldownDecides ==
    [][\A k \in Kinds :
        (EvalStep(k) /\ Outside(Val(k), Lo(k), Hi(k)) /\ last_outside_state[k]) =>
            LET fire == last_alert_time[k] = None \/ clock - last_alert_time[k] >= Cooldown
            IN  /\ (decision'[k] # "NoAlert") <=> fire
                /\ fire => last_alert_time'[k] = clock /\ last_outside_state'[k]
                /\ ~fire => /\ last_alert_time'[k] = last_alert_time[k]
                            /\ last_outside_state'[k] = last_outside_state[k]]_vars

\* an alert exactly one cooldown after the previous one
C3_Witness ==
    /\ pc = "evalHum"
    /\ decision["temp"] = "HighAlert"
    /\ Len(alertTimes["temp"]) = 2
    /\ alertTimes["temp"][2] - alertTimes["temp"][1] = Cooldown
    /\ last_alert_time["temp"] = clock

\* C4 (as stated): an in-range reading gives no alert, and after it the alert
\* decisions are those of a run started in the initial state on the same readings.
C4_Orig ==
    \A k \in Kinds :
        /\ (Evaluated(k) /\ ~Outside(Val(k), Lo(k), Hi(k))) => ~Alerted(k)
        /\ shadow[k].on => (Alerted(k) <=> shadow[k].alert)

LastOr(s) == IF s = <<>> THEN None ELSE s[Len(s)]

\* C4 (amended): an in-range reading gives no alert and sets the state to
\* WithinRange, but the time of the last alert is kept (last_alert_time is always
\* the time of the latest alert); the following decisions are those of a run started
\* in the initial state whenever, at the in-range reading, no alert time was set or
\* one cooldown had elapsed since it.
C4_ResetKeepsAlertTime ==
    \A k \in Kinds :
        /\ (Evaluated(k) /\ ~Outside(Val(k), Lo(k), Hi(k)))
                => ~Alerted(k) /\ ~last_outside_state[k]
        /\ last_alert_time[k] = LastOr(alertTimes[k])
        /\ (shadow[k].on /\ shadow[k].ok) => (Alerted(k) <=> shadow[k].alert)

\* an alert, an in-range reading one cooldown later, and the alert of the re-breach
C4_Witness ==
    /\ shadow["temp"].on /\ shadow["temp"].ok /\ shadow["temp"].alert
    /\ decision["temp"] = "HighAlert"
    /\ Len(alertTimes["temp"]) = 2
    /\ alertTimes["temp"][1] < shadow["temp"].since

\* C5: any two consecutive alerts of one metric are at least one cooldown apart.
C5_AlertsSpaced ==
    \A k \in Kinds : \A i \in 1..(Len(alertTimes[k]) - 1) :
        alertTimes[k][i + 1] - alertTimes[k][i] >= Cooldown

\* two alerts with an in-range reading between them
C5_Witness ==
    /\ Len(alertTimes["temp"]) = 2
    /\ shadow["temp"].on
    /\ alertTimes["temp"][1] < shadow["temp"].since
    /\ shadow["temp"].since < alertTimes["temp"][2]

\* the latest time at which an alert leaves room for one more cooldown and one cycle
Horizon == MaxClock - Cooldown - WaitTime + 1

\* C6: while every cycle delivers a valid reading above max and the loop keeps
\* running, an alert is not the last one: every alert fired before the horizon of the
\* clock is followed by a further alert.
C6_Realerts ==
    \A n \in 1..3 :
        (Len(alertTimes["temp"]) = n /\ clock <= Horizon) ~> (Len(alertTimes["temp"]) > n)

\* three alerts of the persisting breach
C6_Witness ==
    /\ Len(alertTimes["temp"]) = 3
    /\ last_outside_state["temp"]
    /\ decision["temp"] = "HighAlert"

\* C7 (as stated): a rollover over an hour boundary with an empty bucket appends no
\* record, advances hour_start to the new hour and lets the loop go on to its wait.
C7_Orig ==
    [][(pc = "rollover" /\ HourFloor(timestamp) > last_hour /\ hourly_temp = <<>>) =>
            /\ csvFile' = csvFile
            /\ last_hour' = HourFloor(timestamp)
            /\ pc' = "wait"]_vars

\* C8 (as stated): no per-cycle error ends the loop.
C8_Orig == pc # "crashed"

\* C9 (as stated): a record written for hour H holds the readings whose cycle
\* timestamp falls within hour H, and only those.
C9_Orig == lastRoll.wrote => lastRoll.srcHours = {lastRoll.label}

\* C10: get_current_data reads the sensor at most max_retries times, returns at the
\* first read in which both values are present, and fails after exactly max_retries
\* reads when every read reports null values.
C10_BoundedRetries ==
    /\ reads <= max_retries
    /\ gcd_pc = "read" => validReads = 0
    /\ validReads <= 1
    /\ gcd_result = "ok" <=> validReads = 1
    /\ validReads = 1 => gcd_pc = "done"
    /\ (gcd_pc = "done" /\ handles = 1 /\ nullReads = reads)
            => gcd_result = "RuntimeError" /\ reads = max_retries

\* three reads of a sensor that reports null values, then the failure
C10_Witness ==
    /\ gcd_pc = "done"
    /\ max_retries = 3
    /\ reads = 3 /\ nullReads = 3
    /\ gcd_result = "RuntimeError"

\* C11: every call of get_current_data that created a sensor handle has released it
\* exactly once when the call is over (value returned, retries exhausted, or a
\* non-retryable exception of a read), never before; the calls that fail on the
\* configuration (file missing, data_pin absent or not mappable) create no handle.
C11_HandleScoped ==
    /\ handles <= 1 /\ releases <= handles
    /\ gcd_pc = "read" => handles = 1 /\ releases = 0 /\ dhtDevice = "open"
    /\ gcd_pc = "done" => releases = handles
    /\ (gcd_pc = "done" /\ gcd_result \in {"ok", "RuntimeError", "OSError"})
            => handles = 1 /\ releases = 1 /\ dhtDevice = "released"
    /\ (gcd_pc = "done" /\ gcd_result \in {"FileNotFoundError", "JSONDecodeError", "ValueError"})
            => handles = 0 /\ dhtDevice = "none"

\* a read raised a non-retryable exception after a retry: the handle is released
C11_Witness ==
    /\ gcd_pc = "done"
    /\ gcd_result = "OSError"
    /\ reads = 2
    /\ handles = 1 /\ releases = 1 /\ dhtDevice = "released"

\* s is a prefix of t
IsPrefix(s, t) == Len(s) <= Len(t) /\ SubSeq(t, 1, Len(s)) = s

\* C12: the log only grows: over every step (append, failed append, initialisation,
\* restart of the process) the file stays in existence and its earlier content is a
\* prefix of its later content; the initialisation of an existing file leaves it
\* unchanged.
C12_LogGrows ==
    [][/\ csvFile.exists => csvFile'.exists
       /\ IsPrefix(csvFile.rows, csvFile'.rows)
       /\ (pc = "start" /\ csvFile.exists) => csvFile' = csvFile]_vars

\* a record appended before a restart and one after it, below the one header
C12_Witness ==
    /\ restarts = 1
    /\ Len(csvFile.rows) = 3
    /\ csvFile.rows[1] = HeaderRow
    /\ csvFile.rows[2].kind = "data" /\ csvFile.rows[3].kind = "data"
    /\ csvFile.rows[2].timestamp < csvFile.rows[3].timestamp

\* C13 (as stated): whenever the log exists and is not empty, its first row is the
\* header, also when the initialisation failed or the file was absent at an append.
C13_Orig ==
    (csvFile.exists /\ csvFile.rows # <<>>) => csvFile.rows[1] = HeaderRow

\* C14 (as stated): send_email never raises; without credentials it returns false
\* without contacting the transport; a transport failure makes it return false.
C14_Orig ==
    \A k \in Kinds :
        /\ dispatch[k] # "raise"
        /\ ~settings.email => dispatch[k] \in {"none", "skipped"}

\* C15 (as stated): no load of the settings observes a half-written file: neither
\* main() nor get_current_data() fails to parse settings.json while the dashboard
\* writes it.
C15_Orig == error # "JSONDecodeError" /\ gcd_result # "JSONDecodeError"

\* C16 (as stated): the monitoring core never writes the settings file: every change
\* of the file is a step of the dashboard.
C16_Orig == [][settingsFile' # settingsFile => dash_pc' # dash_pc]_vars

\* C16 (amended): the monitoring core writes the settings file in one case only: when
\* the file is missing at the start of a cycle, load_settings creates it with the
\* defaults (no credentials); every other change of the file is a step of the
\* dashboard, and get_current_data never writes it.
C16_CoreWritesDefaultsOnly ==
    [][settingsFile' # settingsFile =>
          \/ dash_pc' # dash_pc
          \/ /\ pc = "load"
             /\ settingsFile.state = "missing"
             /\ settingsFile' = [state |-> "ok", data |-> MonitorDefaults]]_vars

\* the file created by the loop (no run starts with it), read by the acquisition
C16_Witness ==
    /\ settingsFile = [state |-> "ok", data |-> MonitorDefaults]
    /\ posts = 0
    /\ gcd_pc = "read"

Ordered(d) == d.min_temp < d.max_temp /\ d.min_hum < d.max_hum

InRanges(d) ==
    /\ d.min_temp \in -4000..8000 /\ d.max_temp \in -4000..8000
    /\ d.min_hum \in 0..10000 /\ d.max_hum \in 0..10000

\* C17: a POST of the settings is accepted only if the four thresholds are in their
\* ranges ([-40, 80] and [0, 100]) and min < max for both metrics; a rejected POST
\* leaves the stored settings unchanged; so the stored thresholds, valid at the start,
\* satisfy min < max after every sequence of POSTs.
C17_ValidatedPosts ==
    /\ [](settingsFile.state = "ok" => Ordered(settingsFile.data))
    /\ [][posts' = posts + 1 =>
            /\ dash_pc' = "writing" => InRanges(dash_pending') /\ Ordered(dash_pending')
            /\ dash_pc' # "writing" => settingsFile' = settingsFile]_vars

\* the boundary values accepted and stored, after a first POST
C17_Witness ==
    /\ posts = 2
    /\ dash_pc = "idle"
    /\ settingsFile.state = "ok"
    /\ settingsFile.data.min_temp = -4000 /\ settingsFile.data.max_temp = 8000
    /\ settingsFile.data.min_hum = 0 /\ settingsFile.data.max_hum = 10000

\* C18 (as stated): a cycle whose acquisition fails leaves the bucket and the alert
\* states unchanged, decides and dispatches no alert, goes on to the rollover check,
\* and that check rolls the bucket over when the hour boundary was crossed.
C18_Orig ==
    [][/\ (pc = "acquire" /\ gcd_pc = "done" /\ gcd_result # "ok") =>
            /\ pc' = "rollover"
            /\ UNCHANGED <<hourly_temp, hourly_hum, last_alert_time, last_outside_state>>
            /\ \A k \in Kinds : decision'[k] = "NoAlert" /\ dispatch'[k] = "none"
       /\ (pc = "rollover" /\ temp = None /\ HourFloor(timestamp) > last_hour) =>
            /\ last_hour' = HourFloor(timestamp)
            /\ hourly_temp' = <<>> /\ hourly_hum' = <<>>
            /\ pc' = "wait"]_vars

\* C19 (as stated): no dispatch is left waiting on a transport that never answers:
\* the cycle always goes on to its rollover check and its wait.
C19_Orig == pc # "blocked" /\ \A k \in Kinds : dispatch[k] # "blocked"

\* C20: whenever the evaluator decides to fire, the time of the alert is recorded
\* whatever the dispatch does (sent, failed, skipped, raising or waiting), and an
\* alert is dispatched only if no alert was attempted before or one cooldown has
\* elapsed since every attempt, delivered or not.
C20_AttemptedCounts ==
    [][\A k \in Kinds : EvalStep(k) =>
          /\ decision'[k] # "NoAlert" =>
                /\ last_alert_time'[k] = clock
                /\ alertTimes'[k] = Append(alertTimes[k], clock)
                /\ dispatch'[k] \in {"sent", "failed", "skipped", "raise", "blocked"}
          /\ dispatch'[k] # "none" =>
                /\ decision'[k] # "NoAlert"
                /\ \A i \in 1..Len(alertTimes[k]) : clock - alertTimes[k][i] >= Cooldown]_vars

\* the cycle after an alert that was not delivered (no credentials): still outside,
\* no new attempt
C20_Witness ==
    /\ pc = "evalHum"
    /\ ~settings.email /\ posts = 0
    /\ Outside(temp, min_t, max_t)
    /\ last_outside_state["temp"]
    /\ alertTimes["temp"] = <<clock - WaitTime>>
    /\ last_alert_time["temp"] = clock - WaitTime
    /\ decision["temp"] = "NoAlert" /\ dispatch["temp"] = "none"

Other(k) == IF k = "temp" THEN "hum" ELSE "temp"

\* C21: in the evaluation of a metric, an alert decision makes exactly one call of
\* send_email, for a Low alert if and only if the value is below min and for a High
\* alert if and only if it is above max, with the thresholds and settings of the
\* cycle's snapshot; no alert decision, no call; and the evaluation of one metric
\* leaves the state, decision and dispatch of the other unchanged.
C21_OneDispatchPerDecision ==
    [][\A k \in Kinds : EvalStep(k) =>
          LET fired == alertTimes'[k] # alertTimes[k]
          IN  /\ fired <=> decision'[k] \in {"LowAlert", "HighAlert"}
              /\ ~fired <=> decision'[k] = "NoAlert"
              /\ fired <=> dispatch'[k] # "none"
              /\ fired => dispatch'[k] \in
                            (IF settings.smtp_port = BadNum THEN {"raise"}
                             ELSE IF settings.email THEN {"sent", "failed", "blocked"}
                             ELSE {"skipped"})
              /\ fired => (decision'[k] = "LowAlert" <=> Val(k) < Lo(k))
              /\ fired => (decision'[k] = "HighAlert" <=> Val(k) > Hi(k))
              /\ last_alert_time'[Other(k)] = last_alert_time[Other(k)]
              /\ last_outside_state'[Other(k)] = last_outside_state[Other(k)]
              /\ alertTimes'[Other(k)] = alertTimes[Other(k)]
              /\ decision'[Other(k)] = decision[Other(k)]
              /\ dispatch'[Other(k)] = dispatch[Other(k)]]_vars

\* one cycle with a High alert for the temperature and a Low alert for the humidity,
\* both handed to the transport
C21_Witness ==
    /\ pc = "rollover"
    /\ decision["temp"] = "HighAlert" /\ temp > max_t
    /\ decision["hum"] = "LowAlert" /\ hum < min_h
    /\ dispatch["temp"] = "failed" /\ dispatch["hum"] = "sent"

\* C22 (as stated): when two or more hour boundaries lie between the bucket's
\* hour_start and the cycle, and the bucket holds readings of its hour, the rollover
\* emits exactly one record, labelled with the bucket's hour_start, and hour_start
\* advances to the hour of the cycle.
C22_Orig ==
    [][(/\ pc = "rollover"
        /\ HourFloor(timestamp) >= last_hour + 2 * HourLen
        /\ BucketFilled(hourly_temp, hourly_hum)
        /\ \A i \in 1..Len(hourly_ts) : HourFloor(hourly_ts[i]) = last_hour) =>
            /\ last_hour' = HourFloor(timestamp)
            /\ Len(csvFile'.rows) <= Len(csvFile.rows) + 1
            /\ csvFile' # csvFile =>
                    csvFile'.rows[Len(csvFile'.rows)].timestamp = last_hour]_vars

====
